---- MODULE Spec2Model ----
(***************************************************************************)
(* Model of the docstats readability service: the input-shape validator    *)
(* (models.py), the source resolver (extraction.py), the metrics engine    *)
(* (metrics.py) and the two adapters (fastapi_app.py, mcp_server.py).      *)
(*                                                                         *)
(* Strings are sequences of chunks.  A chunk is a short literal piece of   *)
(* text; the chunks that make up request texts are                         *)
(*    "a"  one letter,                                                     *)
(*    " "  one whitespace character,                                       *)
(*    "?"  one question mark,                                              *)
(*    "P"  a block of BlockWords one-letter words separated by single      *)
(*         spaces (it starts and ends with a letter).                      *)
(* Concatenation of strings is \o, so formatting (f-strings), trimming,    *)
(* prefix tests and splitting are computed on the chunks.                  *)
(***************************************************************************)
EXTENDS Integers, Sequences, FiniteSets, TLC

VARIABLES
    pc,               \* position of the request being served
    adapter,          \* "http" (scores_fastapi) or "mcp" (execute_readability_tool)
    arguments,        \* the request's raw fields: text, web_url, gcs_pdf_uri
    source,           \* the validated TextSourceModel, or Absent
    resolution,       \* outcome of get_processed_text, or Absent
    metrics,          \* outcome of calculate_readability_metrics_logic, or Absent
    response,         \* what the adapter sent back, or Absent
    ioLog,            \* I/O and scoring started while serving this request
    logged,           \* log records emitted while serving this request
    injected,         \* library faults the environment injected into the scoring
    storage_client,   \* extraction._storage_client: NoClient or the shared client
    blobRef,          \* bucket/object the pending download reads, or Absent
    delivered,        \* what the GET or the download returned, or Absent
    tasks,            \* the request coroutines of the event loop, one per slot
    running,          \* the coroutine that holds the event loop's thread, or NoTask
    constructed,      \* how many times storage.Client() has returned a client
    streams,          \* InMemoryEventStore.streams: stream id -> deque of entries
    event_index,      \* InMemoryEventStore.event_index: event id -> entry
    issued,           \* how many event ids uuid4() has drawn
    store_log,        \* history: every entry store_event has stored, in order
    replay,           \* the replay_events_after call in progress, or its outcome
    compared          \* a text scored by metrics.py and by main.py, or Absent

\* The state of the one request the pipeline follows, without the shared client.
requestVars == << pc, adapter, arguments, source, resolution, metrics, response,
                  ioLog, logged, injected, blobRef, delivered >>

\* The state of the event loop and its coroutines.
loopVars == << tasks, running, constructed >>

\* The state of the MCP HTTP event store.
storeVars == << streams, event_index, issued, store_log, replay >>

vars == << pc, adapter, arguments, source, resolution, metrics, response,
           ioLog, logged, injected, storage_client, blobRef, delivered,
           tasks, running, constructed,
           streams, event_index, issued, store_log, replay, compared >>

\* Python's None where a string may stand: a one-chunk marker that is no
\* request string, so that it compares with strings.
None == << "<None>" >>

\* A variable that holds no record yet.
Absent == [ kind |-> "absent" ]

\* extraction._storage_client before the first storage.Client().
NoClient == "None"

----------------------------------------------------------------------------
(* Bounds and program constants *)

\* Largest number of pages of a modelled PDF document.
MaxPages == 2

\* Number of requests the event loop serves at the same time.
NumTasks == 2

\* The event store's max_events_per_stream, a constructor argument (default
\* 100): the store is built with 4, so that a stream holds an event before
\* last_eid, last_eid and two events after it, and a fifth event evicts.
MaxEventsPerStream == 4

\* Number of events stored over the life of the event store.
MaxEvents == 6

\* metrics.py: `if wc < 100` (low-word-count warning).
LowWordCount == 100

\* The minimum the Spache computation demands ("100 words required").
SpacheMinWords == 100

\* Words in the block chunk "P": two short of the Spache minimum, so that
\* the sample texts straddle the threshold.
BlockWords == SpacheMinWords - 2

----------------------------------------------------------------------------
(* Strings *)

\* All sequences over S of length at most n.
SeqsUpTo(S, n) == UNION { [1..k -> S] : k \in 0..n }

\* "".join(parts)
RECURSIVE Join(_)
Join(parts) ==
    IF parts = << >> THEN << >> ELSE Head(parts) \o Join(Tail(parts))

\* str.lstrip() / str.rstrip() / str.strip()
RECURSIVE LStrip(_)
LStrip(s) ==
    IF s # << >> /\ Head(s) = " " THEN LStrip(Tail(s)) ELSE s

RECURSIVE RStrip(_)
RStrip(s) ==
    IF s # << >> /\ s[Len(s)] = " " THEN RStrip(SubSeq(s, 1, Len(s) - 1)) ELSE s

Strip(s) == RStrip(LStrip(s))

\* Python truthiness of an Optional[str]: None and "" are falsy.
Truthy(v) == v # None /\ v # << >>

\* s.startswith(<<c>>) for a one-chunk prefix
StartsWith(s, c) == s # << >> /\ Head(s) = c

\* str.lower() on the chunks that have upper-case letters
LowerChunk(c) ==
    CASE c = ".PDF" -> ".pdf"
      [] c = "Application/PDF" -> "application/pdf"
      [] OTHER -> c

Lower(s) == [i \in DOMAIN s |-> LowerChunk(s[i])]

\* s.endswith(<<c>>) for a one-chunk suffix
EndsWith(s, c) == s # << >> /\ s[Len(s)] = c

\* `sub in s` for a non-empty string sub
Contains(s, sub) ==
    \E i \in 1..(Len(s) - Len(sub) + 1) : SubSeq(s, i, i + Len(sub) - 1) = sub

\* s.replace(<<c>>, "")
RECURSIVE RemoveAll(_, _)
RemoveAll(s, c) ==
    IF s = << >> THEN << >>
    ELSE IF Head(s) = c THEN RemoveAll(Tail(s), c)
    ELSE << Head(s) >> \o RemoveAll(Tail(s), c)

\* Index of the first occurrence of chunk c in s, 0 when there is none.
FirstIndex(s, c) ==
    IF \E i \in DOMAIN s : s[i] = c
    THEN CHOOSE i \in DOMAIN s : s[i] = c /\ \A j \in 1..(i - 1) : s[j] # c
    ELSE 0

\* s.split(<<c>>, 1): one or two parts
SplitOnce(s, c) ==
    LET i == FirstIndex(s, c) IN
    IF i = 0 THEN << s >>
    ELSE << SubSeq(s, 1, i - 1), SubSeq(s, i + 1, Len(s)) >>

----------------------------------------------------------------------------
(* Request inputs *)

\* Direct texts.  With BlockWords = 98: "P a" has 99 words, "P a a" has 100,
\* and "P a ?" has 99 words followed by a question mark.
TextSamples ==
    { << >>,
      << " " >>,
      << "a" >>,
      << "?" >>,
      << " ", "a", " " >>,
      << "P", " ", "a" >>,
      << "P", " ", "a", " ", "?" >>,
      << "P", " ", "a", " ", "a" >> }

\* Web URLs: the empty string, a page URL, a URL with a .PDF extension and
\* a URL that has ".pdf" before its query string.
UrlSamples ==
    { << >>,
      << "http://h/", "page" >>,
      << "http://h/", "doc", ".PDF" >>,
      << "http://h/", "doc", ".pdf", "?v=1" >> }

\* Storage URIs: empty, wrong scheme, no object path, bucket and object,
\* and an object path with a directory named "gs:".
GcsSamples ==
    { << >>,
      << "b", "/", "o.pdf" >>,
      << "gs://", "b" >>,
      << "gs://", "b", "/", "o.pdf" >>,
      << "gs://", "b", "/", "d", "/", "gs://", "o.pdf" >> }

Arguments ==
    [ text : {None} \cup TextSamples,
      web_url : {None} \cup UrlSamples,
      gcs_pdf_uri : {None} \cup GcsSamples ]

Adapters == { "http", "mcp" }

----------------------------------------------------------------------------
(* Exceptions *)

Exc(t, m) == [ type |-> t, msg |-> m ]

\* Exception classes that `except ValueError` catches (pydantic's
\* ValidationError derives from ValueError).
ValueErrorKinds == { "ValueError", "ValidationError" }

IsValueError(e) == e.type \in ValueErrorKinds

----------------------------------------------------------------------------
(* models.py: TextSourceModel *)

ExactlyOneMsg ==
    << "Exactly one of text, web_url, or gcs_pdf_uri must be provided." >>

GsUriMsg == << "gcs_pdf_uri must be a valid gs:// URI." >>

MinLengthMsg == << "String should have at least 1 character" >>

SourceFields == << "text", "web_url", "gcs_pdf_uri" >>

\* Variant: a field counts as provided when it is not None.
provided_sources_not_none(values) ==
    { i \in DOMAIN SourceFields : values[SourceFields[i]] # None }

\* provided_sources = [s for s in sources if values.get(s)]
provided_sources(values) ==
    { i \in DOMAIN SourceFields : Truthy(values[SourceFields[i]]) }

\* Variant: the validator without its gs:// prefix test.
check_exclusive_source_no_prefix(values) ==
    IF Cardinality(provided_sources(values)) # 1 THEN ExactlyOneMsg ELSE None

\* The "before" validator: the message of the ValueError it raises, or None.
check_exclusive_source(values) ==
    IF Cardinality(provided_sources(values)) # 1 THEN ExactlyOneMsg
    ELSE IF Truthy(values.gcs_pdf_uri) /\ ~StartsWith(values.gcs_pdf_uri, "gs://")
         THEN GsUriMsg
    ELSE None

\* Field(None, min_length=1) on text: checked after the "before" validator.
text_min_length(values) ==
    IF values.text # None /\ Len(values.text) < 1 THEN MinLengthMsg ELSE None

\* TextSourceModel(**values): the model, or the ValidationError raised.
TextSourceModel(values) ==
    LET early == check_exclusive_source(values)
        field == text_min_length(values)
    IN  IF early # None
        THEN [ ok |-> FALSE,
               exc |-> Exc("ValidationError", << "Value error, " >> \o early) ]
        ELSE IF field # None
        THEN [ ok |-> FALSE, exc |-> Exc("ValidationError", field) ]
        ELSE [ ok |-> TRUE, model |-> values ]

----------------------------------------------------------------------------
(* The scoring libraries, as metrics.py calls them *)

\* textstat.lexicon_count(text): punctuation is removed, then the text is
\* split on whitespace.  `open` says a word is open at the current position.
RECURSIVE LexCount(_, _)
LexCount(s, open) ==
    IF s = << >> THEN 0
    ELSE LET c == Head(s) IN
         CASE c = " " -> LexCount(Tail(s), FALSE)
           [] c = "?" -> LexCount(Tail(s), open)
           [] c = "P" -> (IF open THEN BlockWords - 1 ELSE BlockWords)
                         + LexCount(Tail(s), TRUE)
           [] OTHER   -> (IF open THEN 0 ELSE 1) + LexCount(Tail(s), TRUE)

lexicon_count(text) == LexCount(text, FALSE)

\* The word count Readability(text) takes: its tokenizer makes a token of
\* every word and of every punctuation mark, and drops only the marks of its
\* own punctuation list, where the question mark is not.
RECURSIVE TokCount(_, _)
TokCount(s, open) ==
    IF s = << >> THEN 0
    ELSE LET c == Head(s) IN
         CASE c = " " -> TokCount(Tail(s), FALSE)
           [] c = "?" -> 1 + TokCount(Tail(s), FALSE)
           [] c = "P" -> (IF open THEN BlockWords - 1 ELSE BlockWords)
                         + TokCount(Tail(s), TRUE)
           [] OTHER   -> (IF open THEN 0 ELSE 1) + TokCount(Tail(s), TRUE)

\* Library faults the environment may inject into one scoring call.
LibFaults == { "spache", "textstat" }

TooShortMsg == << "100 words", " required." >>

\* Readability(text).spache().score: a score, or the exception raised.
spache(text, faults) ==
    IF "spache" \in faults
    THEN [ ok |-> FALSE, exc |-> Exc("LookupError", << "resource not found" >>) ]
    ELSE IF TokCount(text, FALSE) < SpacheMinWords
    THEN [ ok |-> FALSE, exc |-> Exc("ReadabilityException", TooShortMsg) ]
    ELSE [ ok |-> TRUE, score |-> "float" ]

----------------------------------------------------------------------------
(* metrics.py: calculate_readability_metrics_logic *)

\* An absent Optional[float] of ReadabilityScoresModel.
Null == "null"

ClassicIndices ==
    { "flesch_reading_ease", "flesch_kincaid_grade", "gunning_fog",
      "smog_index", "automated_readability_index", "coleman_liau_index",
      "linsear_write_formula", "dale_chall_readability_score" }

ReadabilityScoresModel(wc, spache_score) ==
    [ flesch_reading_ease |-> "float",
      flesch_kincaid_grade |-> "float",
      gunning_fog |-> "float",
      smog_index |-> "float",
      automated_readability_index |-> "float",
      coleman_liau_index |-> "float",
      linsear_write_formula |-> "float",
      dale_chall_readability_score |-> "float",
      text_standard |-> "str",
      spache |-> spache_score,
      syllable_count |-> "int",
      word_count |-> wc,
      sentence_count |-> "int" ]

EmptyTextMsg == << "Empty text." >>
ZeroWordsMsg == << "Zero words." >>

LowWordsLog == "warning: <100 words"
SpacheShortLog == "warning: Spache score could not be calculated"
SpacheErrorLog == "error: Unexpected Spache Error"

\* The except clause around the Spache call: what is logged.
spache_except(e) ==
    IF Contains(Lower(e.msg), << "100 words" >>)
    THEN { SpacheShortLog }
    ELSE { SpacheErrorLog }

\* Variant: only the "100 words" failure is swallowed, any other is re-raised.
spache_step_reraise(text, faults) ==
    LET r == spache(text, faults) IN
    IF r.ok THEN [ raised |-> FALSE, score |-> r.score, logs |-> {} ]
    ELSE IF Contains(Lower(r.exc.msg), << "100 words" >>)
    THEN [ raised |-> FALSE, score |-> Null, logs |-> { SpacheShortLog } ]
    ELSE [ raised |-> TRUE, exc |-> r.exc, logs |-> { SpacheErrorLog } ]

\* The try/except around the Spache call: the score kept and what is logged.
spache_step(text, faults) ==
    LET r == spache(text, faults) IN
    IF r.ok THEN [ raised |-> FALSE, score |-> r.score, logs |-> {} ]
    ELSE [ raised |-> FALSE, score |-> Null, logs |-> spache_except(r.exc) ]

\* Variant: `if not text`, without the strip.
is_empty_text_no_strip(text) == text = << >>

\* `if not text.strip()`
is_empty_text(text) == Strip(text) = << >>

\* Variant: the Spache attempt guarded by `wc > 100`.
spache_guard_above_100(wc) == wc > LowWordCount

\* `if wc > 0` before the Spache attempt
spache_guard(wc) == wc > 0

\* Variant: the word count is never tested for zero.
is_zero_words_unchecked(wc) == FALSE

\* `if wc == 0`
is_zero_words(wc) == wc = 0

calculate_readability_metrics_logic(text, src_desc, faults) ==
    IF is_empty_text(text)
    THEN [ kind |-> "raise", exc |-> Exc("ValueError", EmptyTextMsg), logs |-> {} ]
    ELSE
    LET wc == lexicon_count(text) IN
    IF is_zero_words(wc)
    THEN [ kind |-> "raise", exc |-> Exc("ValueError", ZeroWordsMsg), logs |-> {} ]
    ELSE
    LET low == IF wc < LowWordCount THEN { LowWordsLog } ELSE {}
        sp  == IF spache_guard(wc) THEN spache_step(text, faults)
               ELSE [ raised |-> FALSE, score |-> Null, logs |-> {} ]
    IN  IF sp.raised
        THEN [ kind |-> "raise", exc |-> sp.exc, logs |-> low \cup sp.logs ]
        ELSE IF "textstat" \in faults
        THEN [ kind |-> "raise",
               exc |-> Exc("ZeroDivisionError", << "division by zero" >>),
               logs |-> low \cup sp.logs ]
        ELSE [ kind |-> "ok",
               bundle |-> ReadabilityScoresModel(wc, sp.score),
               logs |-> low \cup sp.logs ]

----------------------------------------------------------------------------
(* Documents the environment serves *)

\* What page.extract_text() returns for one page: None or a string.
PageSamples ==
    { None, << >>, << " " >>, << "a" >>, << "?" >>, << " ", "a", " " >> }

PdfDocs == SeqsUpTo(PageSamples, MaxPages)

\* The text nodes of one HTML element, in document order.
ElementSamples ==
    { << >>,
      << << " " >> >>,
      << << "a" >> >>,
      << << " ", "a" >>, << "?", " " >> >> }

\* What soup.find() returns when no element matches: a marker that is no
\* list of text nodes.
NoElement == << None >>

\* A parsed HTML document: what soup.find("article"), soup.find("main") and
\* soup.body find (NoElement when the document has no such element).
HtmlDocs ==
    [ article : {NoElement} \cup ElementSamples,
      main : {NoElement} \cup ElementSamples,
      body : {NoElement} \cup ElementSamples ]

\* Bytes of a response body or of a stored object.
Bodies ==
    [ fmt : {"pdf"}, pages : PdfDocs ]
    \cup [ fmt : {"html"}, doc : HtmlDocs ]
    \cup [ fmt : {"junk"} ]

\* The Content-Type header: missing, HTML, PDF in mixed case, PDF with a
\* parameter.
ContentTypes ==
    { None,
      << "text/html" >>,
      << "Application/PDF" >>,
      << "application/pdf", "; charset=binary" >> }

\* What the HTTP GET does: a transport error, a non-success status that
\* raise_for_status() turns into an error, or a response.
HttpOutcomes ==
    [ kind : {"transport_error", "status_error"} ]
    \cup [ kind : {"response"}, content_type : ContentTypes, content : Bodies ]

\* What blob.download_as_bytes does: the object's bytes or an error.
DownloadOutcomes ==
    [ kind : {"not_found"} ] \cup [ kind : {"bytes"}, content : Bodies ]

----------------------------------------------------------------------------
(* The parsing libraries, as extraction.py calls them *)

\* pypdf.PdfReader(io.BytesIO(content)): the pages, or the error raised on
\* bytes that are no PDF.
PdfReader(content) ==
    IF content.fmt = "pdf"
    THEN [ ok |-> TRUE, pages |-> content.pages ]
    ELSE [ ok |-> FALSE,
           exc |-> Exc("PdfStreamError", << "Stream has ended unexpectedly" >>) ]

\* Variant: the pages are joined last page first.
join_pages_reversed(pages) ==
    Join([ i \in DOMAIN pages |->
             LET p == pages[Len(pages) + 1 - i] IN
             IF Truthy(p) THEN p ELSE << >> ])

\* "".join(page.extract_text() or "" for page in reader.pages)
join_pages(pages) ==
    Join([ i \in DOMAIN pages |->
             IF Truthy(pages[i]) THEN pages[i] ELSE << >> ])

\* BeautifulSoup(content, "html.parser"): bytes that are no HTML parse to a
\* document with no article, main or body element.
BeautifulSoup(content) ==
    IF content.fmt = "html" THEN content.doc
    ELSE [ article |-> NoElement, main |-> NoElement, body |-> NoElement ]

\* Tag.get_text(separator=" ", strip=True): every text node stripped, the
\* empty ones dropped, the rest joined by one space.
RECURSIVE get_text(_)
get_text(nodes) ==
    IF nodes = << >> THEN << >>
    ELSE LET first == Strip(Head(nodes))
             rest  == get_text(Tail(nodes))
         IN  IF first = << >> THEN rest
             ELSE IF rest = << >> THEN first
             ELSE first \o << " " >> \o rest

----------------------------------------------------------------------------
(* extraction.py: get_processed_text and extract_text_from_gcs_pdf *)

Ok(text, desc) == [ kind |-> "ok", text |-> text, desc |-> desc ]
Raise(e) == [ kind |-> "raise", exc |-> e ]

NoTextWebPdfMsg == << "No text in web PDF." >>
NoTextUrlMsg == << "No text from URL." >>
NoTextPdfMsg == << "No text in PDF." >>
InvalidSourceMsg == << "Invalid source." >>

\* The branch get_processed_text takes.
Branch(src) ==
    IF Truthy(src.text) THEN "text"
    ELSE IF Truthy(src.web_url) THEN "web"
    ELSE IF Truthy(src.gcs_pdf_uri) THEN "gcs"
    ELSE "invalid"

\* Variant: the PDF test without .lower().
is_pdf_response_case_sensitive(web_url, content_type) ==
    LET ct == IF content_type = None THEN << >> ELSE content_type IN
    Contains(ct, << "application/pdf" >>) \/ EndsWith(web_url, ".pdf")

\* The PDF test of the web branch.
is_pdf_response(web_url, content_type) ==
    LET ct == Lower(IF content_type = None THEN << >> ELSE content_type) IN
    Contains(ct, << "application/pdf" >>) \/ EndsWith(Lower(web_url), ".pdf")

\* Variant: an element without text is passed over for the next one.
html_target_first_with_text(soup) ==
    IF soup.article # NoElement /\ get_text(soup.article) # << >> THEN soup.article
    ELSE IF soup.main # NoElement /\ get_text(soup.main) # << >> THEN soup.main
    ELSE soup.body

\* soup.find("article") or soup.find("main"), then `article or soup.body`.
html_target(soup) ==
    IF soup.article # NoElement THEN soup.article
    ELSE IF soup.main # NoElement THEN soup.main
    ELSE soup.body

\* Variant: the joined text is never tested.
pdf_has_no_text_unchecked(text) == FALSE

\* `if not text.strip()` after the pages of a PDF were joined
pdf_has_no_text(text) == Strip(text) = << >>

\* Variant: target.get_text(...) without the `if target` guard.
target_text_unguarded(target) ==
    IF target # NoElement THEN [ ok |-> TRUE, text |-> get_text(target) ]
    ELSE [ ok |-> FALSE,
           exc |-> Exc("AttributeError",
                       << "'NoneType' object has no attribute 'get_text'" >>) ]

\* target.get_text(separator=" ", strip=True) if target else ""
target_text(target) ==
    IF target # NoElement THEN [ ok |-> TRUE, text |-> get_text(target) ]
    ELSE [ ok |-> TRUE, text |-> << >> ]

\* The body of the web branch's try block, after the GET returned.
web_try(web_url, outcome) ==
    IF outcome.kind = "transport_error"
    THEN Raise(Exc("ConnectError", << "All connection attempts failed" >>))
    ELSE IF outcome.kind = "status_error"
    THEN Raise(Exc("HTTPStatusError",
                   << "Client error '404 Not Found' for url '" >> \o web_url
                   \o << "'", "\n",
                         "For more information check: https://developer.mozilla.org/en-US/docs/Web/HTTP/Status/404" >>))
    ELSE IF is_pdf_response(web_url, outcome.content_type)
    THEN LET reader == PdfReader(outcome.content) IN
         IF ~reader.ok THEN Raise(reader.exc)
         ELSE LET text == join_pages(reader.pages) IN
              IF pdf_has_no_text(text)
              THEN Raise(Exc("ValueError", NoTextWebPdfMsg))
              ELSE Ok(text, << "Web PDF: " >> \o web_url)
    ELSE LET got == target_text(html_target(BeautifulSoup(outcome.content))) IN
         IF ~got.ok THEN Raise(got.exc)
         ELSE IF Strip(got.text) = << >>
         THEN Raise(Exc("ValueError", NoTextUrlMsg))
         ELSE Ok(got.text, << "URL: " >> \o web_url)

\* Variant: only the HTTP client's own errors are wrapped.
web_except_http_only(web_url, r) ==
    IF r.kind = "raise" /\ r.exc.type \in { "ConnectError", "HTTPStatusError" }
    THEN Raise(Exc("ValueError",
                   << "Web URL error (" >> \o web_url \o << "): " >> \o r.exc.msg))
    ELSE r

\* except Exception as e: raise ValueError(f"Web URL error ({web_url}): {e}")
web_except(web_url, r) ==
    IF r.kind = "raise"
    THEN Raise(Exc("ValueError",
                   << "Web URL error (" >> \o web_url \o << "): " >> \o r.exc.msg))
    ELSE r

web_branch(web_url, outcome) == web_except(web_url, web_try(web_url, outcome))

\* gcs_uri.replace("gs://", "").split("/", 1)
split_gcs_uri(gcs_uri) == SplitOnce(RemoveAll(gcs_uri, "gs://"), "/")

UnpackMsg == << "not enough values to unpack (expected 2, got 1)" >>

\* The try block of extract_text_from_gcs_pdf after the download returned.
gcs_try_after_download(outcome) ==
    IF outcome.kind = "not_found"
    THEN Raise(Exc("NotFound", << "404 No such object" >>))
    ELSE LET reader == PdfReader(outcome.content) IN
         IF ~reader.ok THEN Raise(reader.exc)
         ELSE LET text == join_pages(reader.pages) IN
              IF pdf_has_no_text(text)
              THEN Raise(Exc("ValueError", NoTextPdfMsg))
              ELSE [ kind |-> "ok", text |-> text ]

\* except Exception as e: raise ValueError(f"GCS PDF error ({gcs_uri}): {e}")
gcs_except(gcs_uri, r) ==
    IF r.kind = "raise"
    THEN Raise(Exc("ValueError",
                   << "GCS PDF error (" >> \o gcs_uri \o << "): " >> \o r.exc.msg))
    ELSE r

\* Variant: another provenance template for the storage branch.
gcs_branch_other_label(gcs_uri, r) ==
    IF r.kind = "raise" THEN r ELSE Ok(r.text, << "GCS PDF: " >> \o gcs_uri)

\* get_processed_text's storage branch, given extract_text_from_gcs_pdf's result.
gcs_branch(gcs_uri, r) ==
    IF r.kind = "raise" THEN r ELSE Ok(r.text, << "GCS: " >> \o gcs_uri)

----------------------------------------------------------------------------
(* The adapters: fastapi_app.py scores_fastapi, mcp_server.py
   execute_readability_tool *)

InternalErrorDetail == << "Internal Server Error." >>

\* Variant: the 500 answer with another detail text.
scores_fastapi_server_error(outcome) ==
    IF outcome.kind = "ok"
    THEN [ kind |-> "http", status |-> 200, body |-> outcome.bundle ]
    ELSE IF IsValueError(outcome.exc)
    THEN [ kind |-> "http", status |-> 422, detail |-> outcome.exc.msg ]
    ELSE [ kind |-> "http", status |-> 500, detail |-> << "Server error." >> ]

\* scores_fastapi's try/except: the HTTP response for a pipeline outcome.
scores_fastapi(outcome) ==
    IF outcome.kind = "ok"
    THEN [ kind |-> "http", status |-> 200, body |-> outcome.bundle ]
    ELSE IF IsValueError(outcome.exc)
    THEN [ kind |-> "http", status |-> 422, detail |-> outcome.exc.msg ]
    ELSE [ kind |-> "http", status |-> 500, detail |-> InternalErrorDetail ]

\* FastAPI's answer when the body does not validate as TextSourceModel: 422
\* with the validation errors, before the handler runs.
request_validation_error(e) ==
    [ kind |-> "http", status |-> 422, detail |-> e.msg ]

\* scores_model.model_dump_json(): the bundle as JSON text; a float or a
\* string field is written as a token, word_count as its digits, a missing
\* spache as null.
model_dump_json(bundle) ==
    << "{", "\"flesch_reading_ease\": <float>, ... ", "\"spache\": ",
       IF bundle.spache = Null THEN "null" ELSE "<float>",
       ", ... \"word_count\": ", ToString(bundle.word_count), ", ... ", "}" >>

\* f'{{"error": "<error>", "detail": "{str(e)}"}}': the message is put
\* between the quotes as it is.
error_text(error, detail) ==
    << "{\"error\": \"", error, "\", \"detail\": \"" >> \o detail \o << "\"}" >>

\* str(e) of a pydantic ValidationError: a header line, the location of a
\* field error, the error's message with its type and input, and a link.
validation_error_str(e) ==
    << "1 validation error for TextSourceModel", "\n" >>
    \o (IF e.msg = MinLengthMsg
        THEN << "text", "\n", "  " >> \o e.msg
             \o << " [type=string_too_short, input_value='', input_type=str]", "\n",
                   "    For further information visit https://errors.pydantic.dev/2.13/v/string_too_short" >>
        ELSE << "  " >> \o e.msg
             \o << " [type=value_error, input_value={...}, input_type=dict]", "\n",
                   "    For further information visit https://errors.pydantic.dev/2.13/v/value_error" >>)

\* execute_readability_tool's try/except: the content list returned.  Each
\* item is a TextContent (type, text); error, detail and scores are the
\* values its text was written from.
execute_readability_tool(outcome) ==
    IF outcome.kind = "ok"
    THEN [ kind |-> "mcp",
           content |-> << [ type |-> "text",
                            text |-> model_dump_json(outcome.bundle),
                            scores |-> outcome.bundle ] >> ]
    ELSE IF IsValueError(outcome.exc)
    THEN [ kind |-> "mcp",
           content |-> << [ type |-> "text",
                            text |-> error_text("ValueError", outcome.exc.msg),
                            error |-> "ValueError",
                            detail |-> outcome.exc.msg ] >> ]
    ELSE [ kind |-> "mcp",
           content |-> << [ type |-> "text",
                            text |-> error_text("Internal Server Error",
                                                outcome.exc.msg),
                            error |-> "Internal Server Error",
                            detail |-> outcome.exc.msg ] >> ]

Respond(a, outcome) ==
    IF a = "http" THEN scores_fastapi(outcome) ELSE execute_readability_tool(outcome)

RespondInvalid(a, e) ==
    IF a = "http" THEN request_validation_error(e)
    ELSE execute_readability_tool(Raise(Exc(e.type, validation_error_str(e))))

----------------------------------------------------------------------------
(* The request pipeline *)

\* A dict without keys, and the replay record when no replay is going on.
EmptyDict == [ k \in {} |-> k ]

IdleReplay == [ pc |-> "idle" ]

\* The slots of concurrently served requests, and the value of `running`
\* when no coroutine is executing.
Tasks == 1..NumTasks
NoTask == 0

\* A slot without a request.
IdleTask ==
    [ pc |-> "idle", kind |-> "none", text |-> None, handle |-> NoClient,
      result |-> "none", overlapped |-> FALSE ]

Init ==
    /\ pc = "idle"
    /\ adapter = "http"
    /\ arguments = [ text |-> None, web_url |-> None, gcs_pdf_uri |-> None ]
    /\ source = Absent
    /\ resolution = Absent
    /\ metrics = Absent
    /\ response = Absent
    /\ ioLog = {}
    /\ logged = {}
    /\ injected = {}
    /\ storage_client = NoClient
    /\ blobRef = Absent
    /\ delivered = Absent
    /\ tasks = [ t \in Tasks |-> IdleTask ]
    /\ running = NoTask
    /\ constructed = 0
    /\ streams = EmptyDict
    /\ event_index = EmptyDict
    /\ issued = 0
    /\ store_log = << >>
    /\ replay = IdleReplay
    /\ compared = Absent

\* A request arrives at one of the adapters.
Receive ==
    /\ pc \in { "idle", "done" }
    /\ \E a \in Adapters, args \in Arguments :
          /\ adapter' = a
          /\ arguments' = args
    /\ pc' = "received"
    /\ source' = Absent
    /\ resolution' = Absent
    /\ metrics' = Absent
    /\ response' = Absent
    /\ ioLog' = {}
    /\ logged' = {}
    /\ injected' = {}
    /\ blobRef' = Absent
    /\ delivered' = Absent
    /\ UNCHANGED storage_client
    /\ UNCHANGED loopVars
    /\ UNCHANGED storeVars
    /\ UNCHANGED compared

\* TextSourceModel(**arguments): FastAPI builds it before the handler body,
\* execute_readability_tool as the first statement of its try block.
Validate ==
    /\ pc = "received"
    /\ LET v == TextSourceModel(arguments) IN
       IF v.ok
       THEN /\ source' = v.model
            /\ pc' = "validated"
            /\ UNCHANGED response
       ELSE /\ response' = RespondInvalid(adapter, v.exc)
            /\ pc' = "done"
            /\ UNCHANGED source
    /\ UNCHANGED << adapter, arguments, resolution, metrics, ioLog, logged,
                    injected, storage_client, blobRef, delivered >>
    /\ UNCHANGED loopVars
    /\ UNCHANGED storeVars
    /\ UNCHANGED compared

\* get_processed_text returned or raised: the adapter goes on or answers.
Resolved(r) ==
    /\ resolution' = r
    /\ IF r.kind = "ok"
       THEN pc' = "resolved" /\ UNCHANGED response
       ELSE pc' = "done" /\ response' = Respond(adapter, r)

\* get_processed_text on a source that needs no I/O: direct text, or no
\* recognised field.
ResolveDirect ==
    /\ pc = "validated"
    /\ Branch(source) \in { "text", "invalid" }
    /\ Resolved(IF Branch(source) = "text"
                THEN Ok(source.text, << "direct text" >>)
                ELSE Raise(Exc("ValueError", InvalidSourceMsg)))
    /\ UNCHANGED << adapter, arguments, source, metrics, ioLog, logged,
                    injected, storage_client, blobRef, delivered >>
    /\ UNCHANGED loopVars
    /\ UNCHANGED storeVars
    /\ UNCHANGED compared

\* The web branch issues its GET and waits.
StartFetch ==
    /\ pc = "validated"
    /\ Branch(source) = "web"
    /\ ioLog' = ioLog \cup { "http_get" }
    /\ pc' = "fetching"
    /\ UNCHANGED << adapter, arguments, source, resolution, metrics, response,
                    logged, injected, storage_client, blobRef, delivered >>
    /\ UNCHANGED loopVars
    /\ UNCHANGED storeVars
    /\ UNCHANGED compared

\* The GET ends (a response, a status that raise_for_status() rejects, or a
\* transport error) and the `async with` block is left: the coroutine waits
\* for the client to close before it goes on.
FetchReturns ==
    /\ pc = "fetching"
    /\ \E outcome \in HttpOutcomes : delivered' = outcome
    /\ pc' = "closing"
    /\ UNCHANGED << adapter, arguments, source, resolution, metrics, response,
                    ioLog, logged, injected, storage_client, blobRef >>
    /\ UNCHANGED loopVars
    /\ UNCHANGED storeVars
    /\ UNCHANGED compared

\* The client is closed; the web branch parses the response or wraps the
\* failure.
ClientClosed ==
    /\ pc = "closing"
    /\ Resolved(web_branch(source.web_url, delivered))
    /\ UNCHANGED << adapter, arguments, source, metrics, ioLog, logged,
                    injected, storage_client, blobRef, delivered >>
    /\ UNCHANGED loopVars
    /\ UNCHANGED storeVars
    /\ UNCHANGED compared

\* Variant: a client is constructed on every call.
get_storage_client_per_call(client, can_construct) ==
    IF can_construct
    THEN [ ok |-> TRUE, client |-> "Client", created |-> TRUE ]
    ELSE [ ok |-> FALSE, client |-> client, created |-> FALSE,
           exc |-> Exc("DefaultCredentialsError",
                       << "Your default credentials were not found" >>) ]

\* get_storage_client(): the shared client, created on first use; storage.Client()
\* raises when the environment has no credentials (can_construct = FALSE).
get_storage_client(client, can_construct) ==
    IF client # NoClient
    THEN [ ok |-> TRUE, client |-> client, created |-> FALSE ]
    ELSE IF can_construct
    THEN [ ok |-> TRUE, client |-> "Client", created |-> TRUE ]
    ELSE [ ok |-> FALSE, client |-> NoClient, created |-> FALSE,
           exc |-> Exc("DefaultCredentialsError",
                       << "Your default credentials were not found" >>) ]

\* extract_text_from_gcs_pdf up to its await: the client is fetched, the URI
\* split, and the download handed to a worker thread.
StartGcs ==
    /\ pc = "validated"
    /\ Branch(source) = "gcs"
    /\ \E can_construct \in BOOLEAN :
         LET uri   == source.gcs_pdf_uri
             got   == get_storage_client(storage_client, can_construct)
             parts == split_gcs_uri(uri)
         IN  /\ storage_client' = got.client
             /\ IF ~got.ok
                THEN /\ Resolved(gcs_branch(uri, gcs_except(uri, Raise(got.exc))))
                     /\ ioLog' = ioLog \cup { "client_new" }
                     /\ UNCHANGED blobRef
                ELSE IF Len(parts) # 2
                THEN /\ Resolved(gcs_branch(uri,
                            gcs_except(uri, Raise(Exc("ValueError", UnpackMsg)))))
                     /\ ioLog' = ioLog \cup (IF got.created THEN { "client_new" } ELSE {})
                     /\ UNCHANGED blobRef
                ELSE /\ blobRef' = [ kind |-> "blob", bucket |-> parts[1],
                                     name |-> parts[2] ]
                     /\ ioLog' = ioLog \cup { "storage_read" }
                                       \cup (IF got.created THEN { "client_new" } ELSE {})
                     /\ pc' = "downloading"
                     /\ UNCHANGED << resolution, response >>
    /\ UNCHANGED << adapter, arguments, source, metrics, logged, injected,
                    delivered >>
    /\ UNCHANGED loopVars
    /\ UNCHANGED storeVars
    /\ UNCHANGED compared

\* While this request waits at an await (the GET, the client's close, the
\* download), another request of the same process runs
\* extract_text_from_gcs_pdf and calls get_storage_client().
OtherRequestGetsClient ==
    /\ pc \in { "fetching", "closing", "downloading" }
    /\ \E can_construct \in BOOLEAN :
         storage_client' = get_storage_client(storage_client, can_construct).client
    /\ UNCHANGED requestVars
    /\ UNCHANGED loopVars
    /\ UNCHANGED storeVars
    /\ UNCHANGED compared

\* The download ends; the rest of extract_text_from_gcs_pdf runs.
DownloadReturns ==
    /\ pc = "downloading"
    /\ \E outcome \in DownloadOutcomes :
         /\ delivered' = outcome
         /\ Resolved(gcs_branch(source.gcs_pdf_uri,
                   gcs_except(source.gcs_pdf_uri, gcs_try_after_download(outcome))))
    /\ UNCHANGED << adapter, arguments, source, metrics, ioLog, logged,
                    injected, storage_client, blobRef >>
    /\ UNCHANGED loopVars
    /\ UNCHANGED storeVars
    /\ UNCHANGED compared

\* calculate_readability_metrics_logic on the resolved text, then the
\* adapter's answer.
Score ==
    /\ pc = "resolved"
    /\ \E f \in SUBSET LibFaults :
         LET m == calculate_readability_metrics_logic(resolution.text,
                                                      resolution.desc, f)
         IN  /\ injected' = f
             /\ metrics' = IF m.kind = "ok"
                           THEN [ kind |-> "ok", bundle |-> m.bundle ]
                           ELSE [ kind |-> "raise", exc |-> m.exc ]
             /\ logged' = m.logs
             /\ response' = Respond(adapter, m)
    /\ ioLog' = ioLog \cup { "score" }
    /\ pc' = "done"
    /\ UNCHANGED << adapter, arguments, source, resolution, storage_client,
                    blobRef, delivered >>
    /\ UNCHANGED loopVars
    /\ UNCHANGED storeVars
    /\ UNCHANGED compared

Next ==
    \/ Receive
    \/ Validate
    \/ ResolveDirect
    \/ StartFetch
    \/ FetchReturns
    \/ ClientClosed
    \/ OtherRequestGetsClient
    \/ StartGcs
    \/ DownloadReturns
    \/ Score

Spec == Init /\ [][Next]_vars

----------------------------------------------------------------------------
(* Tool calls *)

\* Arguments of get_readability_scores calls: no field, a text, a blank
\* text, two sources, a page URL, a stored PDF, and a storage URI that has
\* a double quote and no object path.
ToolArguments ==
    { [ text |-> None, web_url |-> None, gcs_pdf_uri |-> None ],
      [ text |-> << "a" >>, web_url |-> None, gcs_pdf_uri |-> None ],
      [ text |-> << " " >>, web_url |-> None, gcs_pdf_uri |-> None ],
      [ text |-> << "a" >>, web_url |-> << "http://h/", "page" >>,
        gcs_pdf_uri |-> None ],
      [ text |-> None, web_url |-> << "http://h/", "page" >>, gcs_pdf_uri |-> None ],
      [ text |-> None, web_url |-> None,
        gcs_pdf_uri |-> << "gs://", "b", "/", "o.pdf" >> ],
      [ text |-> None, web_url |-> None,
        gcs_pdf_uri |-> << "gs://", "b", "\"", "x" >> ] }

\* call_tool_generic / call_tool_http: a get_readability_scores call is
\* handed to execute_readability_tool.
CallTool ==
    /\ pc \in { "idle", "done" }
    /\ \E args \in ToolArguments : arguments' = args
    /\ adapter' = "mcp"
    /\ pc' = "received"
    /\ source' = Absent
    /\ resolution' = Absent
    /\ metrics' = Absent
    /\ response' = Absent
    /\ ioLog' = {}
    /\ logged' = {}
    /\ injected' = {}
    /\ blobRef' = Absent
    /\ delivered' = Absent
    /\ UNCHANGED storage_client
    /\ UNCHANGED loopVars
    /\ UNCHANGED storeVars
    /\ UNCHANGED compared

NextTool ==
    \/ CallTool
    \/ Validate
    \/ ResolveDirect
    \/ StartFetch
    \/ FetchReturns
    \/ ClientClosed
    \/ OtherRequestGetsClient
    \/ StartGcs
    \/ DownloadReturns
    \/ Score

SpecTool == Init /\ [][NextTool]_vars

----------------------------------------------------------------------------
(* Concurrent requests on the event loop *)

\* The handlers are coroutines of one event loop: a coroutine runs alone
\* from the moment it is resumed to its next await, and another coroutine
\* is resumed only when none is running.  `running` is the coroutine that
\* is executing; a coroutine stopped at an await does not hold the loop.

\* Direct texts and stored objects of the concurrent requests.
TaskTexts == { << "a" >>, << " " >> }

TaskDownloads ==
    { [ kind |-> "not_found" ],
      [ kind |-> "bytes", content |-> [ fmt |-> "pdf", pages |-> << << "a" >> >> ] ],
      [ kind |-> "bytes", content |-> [ fmt |-> "pdf", pages |-> << << >> >> ] ] }

\* Variant: blob.download_as_bytes() is called inline, on the loop's thread.
download_inline == FALSE

\* pdf_bytes = await asyncio.to_thread(blob.download_as_bytes): the blocking
\* download runs on a worker thread and the coroutine waits at the await.
download_offloaded == TRUE

\* A request is accepted and its handler scheduled on the loop.
TaskArrives(t) ==
    /\ tasks[t].pc = "idle"
    /\ \E kind \in { "text", "gcs" } :
         IF kind = "text"
         THEN \E text \in TaskTexts :
                tasks' = [ tasks EXCEPT ![t] =
                             [ IdleTask EXCEPT !.pc = "ready", !.kind = "text",
                                               !.text = text ] ]
         ELSE tasks' = [ tasks EXCEPT ![t] =
                           [ IdleTask EXCEPT !.pc = "ready", !.kind = "gcs" ] ]
    /\ UNCHANGED << running, constructed, storage_client, requestVars >>
    /\ UNCHANGED storeVars
    /\ UNCHANGED compared

\* A direct-text handler has no await that suspends it: once resumed it
\* resolves, scores and returns in one run of the loop.
TaskRunText(t) ==
    /\ running = NoTask
    /\ tasks[t].pc = "ready"
    /\ tasks[t].kind = "text"
    /\ LET m == calculate_readability_metrics_logic(tasks[t].text,
                                                     << "direct text" >>, {})
       IN  tasks' = [ tasks EXCEPT
                        ![t].pc = "finished",
                        ![t].result = m.kind,
                        ![t].overlapped =
                            \E u \in Tasks : tasks[u].pc = "downloading" ]
    /\ UNCHANGED << running, constructed, storage_client, requestVars >>
    /\ UNCHANGED storeVars
    /\ UNCHANGED compared

\* A storage handler is resumed and runs extract_text_from_gcs_pdf up to
\* storage_client = get_storage_client().
TaskGetClient(t) ==
    /\ running = NoTask
    /\ tasks[t].pc = "ready"
    /\ tasks[t].kind = "gcs"
    /\ \E can_construct \in BOOLEAN :
         LET got == get_storage_client(storage_client, can_construct) IN
         /\ storage_client' = got.client
         /\ constructed' = IF got.created THEN constructed + 1 ELSE constructed
         /\ IF got.ok
            THEN /\ tasks' = [ tasks EXCEPT ![t].pc = "has_client",
                                            ![t].handle = got.client ]
                 /\ running' = t
            ELSE /\ tasks' = [ tasks EXCEPT ![t].pc = "finished",
                                            ![t].result = "raise" ]
                 /\ running' = NoTask
    /\ UNCHANGED requestVars
    /\ UNCHANGED storeVars
    /\ UNCHANGED compared

\* The handler goes on to the download: handed to a worker thread, the
\* coroutine stops at the await and the loop is free; called inline, the
\* coroutine keeps the loop's thread until the download is over.
TaskStartDownload(t) ==
    /\ running = t
    /\ tasks[t].pc = "has_client"
    /\ tasks' = [ tasks EXCEPT ![t].pc = "downloading" ]
    /\ running' = IF download_offloaded THEN NoTask ELSE t
    /\ UNCHANGED << constructed, storage_client, requestVars >>
    /\ UNCHANGED storeVars
    /\ UNCHANGED compared

\* The download is over and the handler is resumed: it parses the PDF,
\* scores the text and returns.
TaskDownloadReturns(t) ==
    /\ tasks[t].pc = "downloading"
    /\ running = IF download_offloaded THEN NoTask ELSE t
    /\ \E outcome \in TaskDownloads :
         LET r == gcs_except(<< "gs://", "b", "/", "o.pdf" >>,
                             gcs_try_after_download(outcome))
         IN  tasks' = [ tasks EXCEPT
                          ![t].pc = "finished",
                          ![t].result =
                              IF r.kind = "raise" THEN "raise"
                              ELSE calculate_readability_metrics_logic(
                                       r.text, << "GCS" >>, {}).kind ]
    /\ running' = NoTask
    /\ UNCHANGED << constructed, storage_client, requestVars >>
    /\ UNCHANGED storeVars
    /\ UNCHANGED compared

\* The answer is sent; the slot is free for the next request.
TaskReturns(t) ==
    /\ tasks[t].pc = "finished"
    /\ tasks' = [ tasks EXCEPT ![t] = IdleTask ]
    /\ UNCHANGED << running, constructed, storage_client, requestVars >>
    /\ UNCHANGED storeVars
    /\ UNCHANGED compared

NextLoop ==
    \E t \in Tasks :
        \/ TaskArrives(t)
        \/ TaskRunText(t)
        \/ TaskGetClient(t)
        \/ TaskStartDownload(t)
        \/ TaskDownloadReturns(t)
        \/ TaskReturns(t)

SpecLoop == Init /\ [][NextLoop]_vars

----------------------------------------------------------------------------
(* mcp_server.py: InMemoryEventStore *)

\* Stream ids and messages of the stored events.
StreamIds == { "s1", "s2" }
Messages == { "m" }

\* str(uuid4()): the n-th id drawn; no two draws give the same id.
uuid4(n) == << "uuid", n >>

\* What replay_events_after returns for an unknown event id.
NoStream == "None"

\* d[k] = v, d.pop(k, None) and d.get(k, default) on a dict.
DictSet(d, k, v) == [ x \in DOMAIN d \cup { k } |-> IF x = k THEN v ELSE d[x] ]
DictPop(d, k) == [ x \in DOMAIN d \ { k } |-> d[x] ]
DictGet(d, k, default) == IF k \in DOMAIN d THEN d[k] ELSE default

EventEntry(event_id, stream_id, message) ==
    [ event_id |-> event_id, stream_id |-> stream_id, message |-> message ]

\* collections.deque(maxlen=...): its items, its bound, and the counter of
\* mutations that its iterators compare against.
deque(maxlen) == [ items |-> << >>, maxlen |-> maxlen, state |-> 0 ]

\* deque.append: a full bounded deque drops its leftmost item.
deque_append(d, x) ==
    [ d EXCEPT !.items = IF d.maxlen = 0 THEN << >>
                         ELSE IF Len(d.items) = d.maxlen
                         THEN Tail(d.items) \o << x >>
                         ELSE Append(d.items, x),
               !.state = d.state + 1 ]

\* self.max_events_per_stream
max_events_per_stream == MaxEventsPerStream

\* Variant: the index keeps the id of the entry the deque is about to drop.
evict_from_index_never(index, d) == index

\* if len(self.streams[stream_id]) == self.max_events_per_stream:
\*     self.event_index.pop(self.streams[stream_id][0].event_id, None)
evict_from_index(index, d) ==
    IF Len(d.items) = max_events_per_stream
    THEN DictPop(index, d.items[1].event_id)
    ELSE index

\* store_event(stream_id, msg) with eid the id drawn: the new streams and
\* event_index.
store_event(ss, index, stream_id, msg, eid) ==
    LET entry  == EventEntry(eid, stream_id, msg)
        ss1    == IF stream_id \notin DOMAIN ss
                  THEN DictSet(ss, stream_id, deque(max_events_per_stream))
                  ELSE ss
        index1 == evict_from_index(index, ss1[stream_id])
        ss2    == DictSet(ss1, stream_id, deque_append(ss1[stream_id], entry))
    IN  [ streams |-> ss2, event_index |-> DictSet(index1, eid, entry), entry |-> entry ]

\* A replay_events_after call: where it is, its iterator over the deque
\* (next position, the deque's mutation counter when the iteration began),
\* the found flag, the event ids passed to cb so far, and what it returned
\* or raised.  log_at_call, index_at_call and interrupted are history: the
\* log and the indexed ids when the call began, and whether store_event
\* added to the replayed stream while the call was inside cb.
NewReplay(last_eid) ==
    [ pc |-> "called", last_eid |-> last_eid, stream_id |-> NoStream,
      idx |-> 1, it_state |-> 0, found |-> FALSE, sent |-> << >>,
      result |-> NoStream, error |-> "none",
      log_at_call |-> store_log, index_at_call |-> DOMAIN event_index,
      interrupted |-> FALSE ]

MutatedMsg == "RuntimeError: deque mutated during iteration"

\* The for loop of replay_events_after, from the iterator's position to the
\* next `await cb(...)`, to the return, or to the iterator's error when the
\* deque was mutated since the iteration began.
RECURSIVE replay_loop(_, _)
replay_loop(d, r) ==
    IF d.state # r.it_state
    THEN [ r EXCEPT !.pc = "failed", !.error = MutatedMsg ]
    ELSE IF r.idx > Len(d.items)
    THEN [ r EXCEPT !.pc = "returned", !.result = r.stream_id ]
    ELSE LET event == d.items[r.idx]
             r1    == [ r EXCEPT !.idx = r.idx + 1 ]
         IN  IF r.found
             THEN [ r1 EXCEPT !.pc = "in_callback",
                              !.sent = Append(r.sent, event.event_id) ]
             ELSE IF event.event_id = r.last_eid
             THEN replay_loop(d, [ r1 EXCEPT !.found = TRUE ])
             ELSE replay_loop(d, r1)

\* replay_events_after(last_eid, cb) from its call to its first await, its
\* return or its error.
replay_events_after(ss, index, r) ==
    IF r.last_eid \notin DOMAIN index
    THEN [ r EXCEPT !.pc = "returned", !.result = NoStream ]
    ELSE LET stream_id == index[r.last_eid].stream_id
             d         == DictGet(ss, stream_id, deque(0))
         IN  replay_loop(d, [ r EXCEPT !.stream_id = stream_id,
                                       !.it_state = d.state ])

\* store_event runs (it has no await: it runs in one go), also while a
\* replay is waiting inside cb.
StoreEvent ==
    /\ issued < MaxEvents
    /\ \E stream_id \in StreamIds, msg \in Messages :
         LET after == store_event(streams, event_index, stream_id, msg,
                                  uuid4(issued + 1))
         IN  /\ streams' = after.streams
             /\ event_index' = after.event_index
             /\ store_log' = Append(store_log, after.entry)
             /\ replay' = IF replay.pc = "in_callback" /\ replay.stream_id = stream_id
                          THEN [ replay EXCEPT !.interrupted = TRUE ]
                          ELSE replay
    /\ issued' = issued + 1
    /\ UNCHANGED << requestVars, storage_client, loopVars, compared >>

\* A client reconnects: replay_events_after is called with an event id.
ReplayCall ==
    /\ replay.pc = "idle"
    /\ \E n \in 1..MaxEvents :
         replay' = replay_events_after(streams, event_index, NewReplay(uuid4(n)))
    /\ UNCHANGED << streams, event_index, issued, store_log,
                    requestVars, storage_client, loopVars, compared >>

\* cb returns and the for loop goes on.
CallbackReturns ==
    /\ replay.pc = "in_callback"
    /\ replay' = replay_loop(streams[replay.stream_id], replay)
    /\ UNCHANGED << streams, event_index, issued, store_log,
                    requestVars, storage_client, loopVars, compared >>

\* The caller has the replay's result or error.
ReplayEnds ==
    /\ replay.pc \in { "returned", "failed" }
    /\ replay' = IdleReplay
    /\ UNCHANGED << streams, event_index, issued, store_log,
                    requestVars, storage_client, loopVars, compared >>

NextStore ==
    \/ StoreEvent
    \/ ReplayCall
    \/ CallbackReturns
    \/ ReplayEnds

SpecStore == Init /\ [][NextStore]_vars

----------------------------------------------------------------------------
(* main.py: the standalone entry point's scoring *)

\* main.py's calculate_readability_metrics_logic: the bundle is returned
\* right after the low-word-count warning, without a spache argument; the
\* Spache block after that return statement is never reached.
main_calculate_readability_metrics_logic(text, src_desc, faults) ==
    IF is_empty_text(text)
    THEN [ kind |-> "raise", exc |-> Exc("ValueError", EmptyTextMsg), logs |-> {} ]
    ELSE
    LET wc == lexicon_count(text) IN
    IF is_zero_words(wc)
    THEN [ kind |-> "raise", exc |-> Exc("ValueError", ZeroWordsMsg), logs |-> {} ]
    ELSE
    LET low == IF wc < LowWordCount THEN { LowWordsLog } ELSE {} IN
    IF "textstat" \in faults
    THEN [ kind |-> "raise",
           exc |-> Exc("ZeroDivisionError", << "division by zero" >>),
           logs |-> low ]
    ELSE [ kind |-> "ok", bundle |-> ReadabilityScoresModel(wc, Null), logs |-> low ]

\* Provenance strings handed to the scoring.
Provenances ==
    { << "direct text" >>,
      << "URL: ", "http://h/", "page" >>,
      << "Web PDF: ", "http://h/", "doc", ".PDF" >>,
      << "GCS: ", "gs://", "b", "/", "o.pdf" >> }

\* One text with its provenance is scored by the modular pipeline's
\* metrics.py and by main.py, under the same behaviour of the libraries.
ScoreBoth ==
    /\ \E text \in TextSamples, src_desc \in Provenances, f \in SUBSET LibFaults :
         compared' =
             [ kind |-> "compared", text |-> text, src_desc |-> src_desc,
               faults |-> f,
               modular |-> calculate_readability_metrics_logic(text, src_desc, f),
               standalone |-> main_calculate_readability_metrics_logic(text, src_desc, f) ]
    /\ UNCHANGED << requestVars, storage_client, loopVars, storeVars >>

NextBoth == ScoreBoth

SpecBoth == Init /\ [][NextBoth]_vars

----------------------------------------------------------------------------
(* Properties: vocabulary *)

\* Number of the request's fields that are present and non-empty.
PopulatedCount ==
    Cardinality({ f \in { "text", "web_url", "gcs_pdf_uri" } :
                    arguments[f] # None /\ arguments[f] # << >> })

\* The request has been validated (or rejected) already.
PastValidation == pc \notin { "idle", "received" }

\* The adapter answered with an error, and the error text it sent.
IsErrorResponse ==
    /\ response # Absent
    /\ IF response.kind = "http" THEN response.status # 200
       ELSE "error" \in DOMAIN response.content[1]

ErrorDetail ==
    IF response.kind = "http" THEN response.detail ELSE response.content[1].detail

\* The adapter answered with a score bundle.
IsBundleResponse ==
    /\ response # Absent
    /\ IF response.kind = "http" THEN response.status = 200
       ELSE "scores" \in DOMAIN response.content[1]

\* The request was rejected when TextSourceModel was built, with message m.
RejectedAtValidation(m) ==
    /\ pc = "done"
    /\ source = Absent
    /\ resolution = Absent
    /\ metrics = Absent
    /\ IsErrorResponse
    /\ Contains(ErrorDetail, m)
    /\ IF response.kind = "http" THEN response.status = 422
       ELSE response.content[1].error = "ValueError"

\* The request carries a direct text and nothing else.
DirectTextOnly ==
    /\ arguments.text # None
    /\ arguments.web_url = None
    /\ arguments.gcs_pdf_uri = None

\* The scoring ran on a direct text with no library fault injected.
ScoredDirectText ==
    /\ pc = "done"
    /\ DirectTextOnly
    /\ resolution # Absent
    /\ metrics # Absent
    /\ injected = {}

AllClassicPresent(bundle) == \A i \in ClassicIndices : bundle[i] = "float"

----------------------------------------------------------------------------
(* C1 *)

\* C1: a request with zero or more than one populated field (an empty string
\* counts as absent) is rejected when TextSourceModel is built, with the
\* message "Exactly one of text, web_url, or gcs_pdf_uri must be provided",
\* in both adapters, and no HTTP fetch, storage read or scoring is ever
\* started for it.
C1_ExactlyOneSourceEnforced ==
    (pc # "idle" /\ PopulatedCount # 1) =>
        /\ ioLog = {}
        /\ PastValidation => RejectedAtValidation(ExactlyOneMsg)

\* Two populated fields, rejected by the HTTP endpoint.
C1_Witness ==
    /\ pc = "done"
    /\ adapter = "http"
    /\ arguments.text = << "a" >>
    /\ arguments.web_url = << "http://h/", "page" >>
    /\ arguments.gcs_pdf_uri = None
    /\ RejectedAtValidation(ExactlyOneMsg)

----------------------------------------------------------------------------
(* C2 *)

\* C2: for every direct text whose word count (textstat's lexicon count) is
\* between 1 and 99, the request succeeds, the eight classic indices are
\* present and spache is absent.
C2_ShortTextSpacheAbsent ==
    (ScoredDirectText /\ lexicon_count(arguments.text) \in 1..(LowWordCount - 1)) =>
        /\ metrics.kind = "ok"
        /\ IsBundleResponse
        /\ AllClassicPresent(metrics.bundle)
        /\ metrics.bundle.spache = Null

----------------------------------------------------------------------------
(* C3 *)

\* C3: for every direct text of at least 100 words on which the libraries
\* do not fail, the request succeeds, the eight classic indices are present
\* and spache is a number.
C3_LongTextSpachePresent ==
    (ScoredDirectText /\ lexicon_count(arguments.text) >= LowWordCount) =>
        /\ metrics.kind = "ok"
        /\ IsBundleResponse
        /\ AllClassicPresent(metrics.bundle)
        /\ metrics.bundle.spache = "float"
        /\ metrics.bundle.word_count = lexicon_count(arguments.text)

\* A direct text of exactly 100 words was scored.
C3_Witness ==
    /\ ScoredDirectText
    /\ arguments.text = << "P", " ", "a", " ", "a" >>
    /\ metrics.kind = "ok"
    /\ metrics.bundle.spache = "float"

----------------------------------------------------------------------------
(* C4 *)

\* The direct text is empty or only whitespace.
BlankDirectText ==
    /\ DirectTextOnly
    /\ \A i \in DOMAIN arguments.text : arguments.text[i] = " "

\* C4 as stated: every direct text of trimmed length 0 runs through
\* validation and get_processed_text and fails in the metrics engine with
\* "Empty text.", without a bundle.
C4_BlankTextFailsEmptyText ==
    (pc = "done" /\ BlankDirectText) =>
        /\ metrics # Absent
        /\ metrics.kind = "raise"
        /\ metrics.exc = Exc("ValueError", EmptyTextMsg)
        /\ IsErrorResponse

\* C4 amended: every direct text of trimmed length 0 fails without a bundle;
\* a non-empty whitespace-only text fails in the metrics engine with
\* "Empty text.", while the empty string is rejected already when
\* TextSourceModel is built, with the "Exactly one of ..." message.
C4_BlankTextFails ==
    (pc = "done" /\ BlankDirectText) =>
        /\ IsErrorResponse
        /\ ~IsBundleResponse
        /\ IF arguments.text = << >>
           THEN RejectedAtValidation(ExactlyOneMsg)
           ELSE /\ resolution = Ok(arguments.text, << "direct text" >>)
                /\ metrics = Raise(Exc("ValueError", EmptyTextMsg))
                /\ ErrorDetail = EmptyTextMsg

\* A whitespace-only text reached the metrics engine and was refused there.
C4_Witness ==
    /\ pc = "done"
    /\ BlankDirectText
    /\ arguments.text = << " " >>
    /\ metrics = Raise(Exc("ValueError", EmptyTextMsg))

----------------------------------------------------------------------------
(* C5 *)

\* The only populated field is a gcs_pdf_uri that does not start with gs://.
BadGcsUriOnly ==
    /\ arguments.gcs_pdf_uri # None
    /\ arguments.gcs_pdf_uri # << >>
    /\ Head(arguments.gcs_pdf_uri) # "gs://"
    /\ arguments.text \in { None, << >> }
    /\ arguments.web_url \in { None, << >> }

\* C5: a request whose only populated field is a gcs_pdf_uri without the
\* gs:// prefix is rejected when TextSourceModel is built, with
\* "gcs_pdf_uri must be a valid gs:// URI", and while it is served the
\* storage client is neither created nor asked to read an object.
C5_BadGcsUriRejectedWithoutStorage ==
    (pc # "idle" /\ BadGcsUriOnly) =>
        /\ "client_new" \notin ioLog
        /\ "storage_read" \notin ioLog
        /\ blobRef = Absent
        /\ PastValidation => RejectedAtValidation(GsUriMsg)

\* The MCP tool rejected a URI without the gs:// prefix; no client exists.
C5_Witness ==
    /\ pc = "done"
    /\ adapter = "mcp"
    /\ arguments.gcs_pdf_uri = << "b", "/", "o.pdf" >>
    /\ arguments.text = None
    /\ arguments.web_url = None
    /\ RejectedAtValidation(GsUriMsg)
    /\ storage_client = NoClient

----------------------------------------------------------------------------
(* C6 *)

\* The request's one populated field.
IsWebRequest ==
    /\ arguments.web_url \notin { None, << >> }
    /\ arguments.text \in { None, << >> }

IsGcsRequest ==
    /\ arguments.gcs_pdf_uri \notin { None, << >> }
    /\ arguments.text \in { None, << >> }
    /\ arguments.web_url \in { None, << >> }

\* The response announces a PDF: by its content type or by the URL's extension.
AnnouncedAsPdf ==
    \/ \E i \in DOMAIN delivered.content_type :
          delivered.content_type[i] \in { "application/pdf", "Application/PDF" }
    \/ arguments.web_url[Len(arguments.web_url)] \in { ".pdf", ".PDF" }

\* A PDF arrived (from the web, announced as one and with the HTTP client
\* closed, or from storage) and every page of it extracts to None or to the
\* empty string.
TextlessPdfArrived ==
    /\ pc # "closing"
    /\ delivered.kind \in { "response", "bytes" }
    /\ delivered.content.fmt = "pdf"
    /\ delivered.kind = "response" => AnnouncedAsPdf
    /\ \A i \in DOMAIN delivered.content.pages :
          delivered.content.pages[i] \in { None, << >> }

NoTextInPdfCondition(e) ==
    /\ e.type = "ValueError"
    /\ e.msg[Len(e.msg)] \in { "No text in PDF.", "No text in web PDF." }

\* C6: for a PDF from the web or from storage whose every page extracts to
\* the empty string or to nothing, resolution fails with the no-text-in-PDF
\* condition; the scoring is never started and no bundle is returned.
C6_TextlessPdfFails ==
    TextlessPdfArrived =>
        /\ pc = "done"
        /\ resolution.kind = "raise"
        /\ NoTextInPdfCondition(resolution.exc)
        /\ metrics = Absent
        /\ "score" \notin ioLog
        /\ IsErrorResponse

\* A stored PDF of two pages, one extracting to None and one to "".
C6_Witness ==
    /\ pc = "done"
    /\ IsGcsRequest
    /\ delivered.kind = "bytes"
    /\ delivered.content = [ fmt |-> "pdf", pages |-> << None, << >> >> ]
    /\ resolution.kind = "raise"

----------------------------------------------------------------------------
(* C7 *)

\* An HTML page arrived that has no article, no main and no body element,
\* it is not announced as a PDF, and the HTTP client is closed.
BareHtmlArrived ==
    /\ pc # "closing"
    /\ delivered.kind = "response"
    /\ delivered.content.fmt = "html"
    /\ delivered.content.doc.article = NoElement
    /\ delivered.content.doc.main = NoElement
    /\ delivered.content.doc.body = NoElement
    /\ ~AnnouncedAsPdf

\* C7: an HTML response without article, main and body extracts to the
\* empty text, and resolution fails with "No text from URL." (wrapped with
\* the URL), not with a library error and not with a text.
C7_BareHtmlFails ==
    BareHtmlArrived =>
        /\ pc = "done"
        /\ resolution =
              Raise(Exc("ValueError",
                        << "Web URL error (" >> \o arguments.web_url
                           \o << "): ", "No text from URL." >>))
        /\ metrics = Absent
        /\ IsErrorResponse

\* A text/html page without article, main and body was fetched.
C7_Witness ==
    /\ pc = "done"
    /\ BareHtmlArrived
    /\ delivered.content_type = << "text/html" >>
    /\ resolution.kind = "raise"

----------------------------------------------------------------------------
(* C8 *)

\* The scoring ran, textstat did not fail, and the Spache computation raised
\* (too few words for it, or a fault of the library).
SpacheRaised ==
    /\ pc = "done"
    /\ metrics # Absent
    /\ "textstat" \notin injected
    /\ lexicon_count(resolution.text) > 0
    /\ \/ "spache" \in injected
       \/ TokCount(resolution.text, FALSE) < SpacheMinWords

\* C8: whenever the Spache computation raises, for whatever reason, the
\* metrics engine still returns a bundle; spache is absent in it and every
\* other field is what it is without the failure; the request succeeds.
C8_SpacheFailureSwallowed ==
    SpacheRaised =>
        /\ metrics.kind = "ok"
        /\ metrics.bundle.spache = Null
        /\ \A f \in DOMAIN metrics.bundle \ { "spache" } :
              metrics.bundle[f] =
                 ReadabilityScoresModel(lexicon_count(resolution.text), "float")[f]
        /\ IsBundleResponse

\* The library failed for another reason than the length, on a 100-word text.
C8_Witness ==
    /\ SpacheRaised
    /\ injected = { "spache" }
    /\ resolution.text = << "P", " ", "a", " ", "a" >>
    /\ SpacheErrorLog \in logged
    /\ metrics.kind = "ok"

----------------------------------------------------------------------------
(* C9 *)

\* C9: every failure of get_processed_text on a web_url or gcs_pdf_uri
\* source is a ValueError whose message contains the request's URL or URI.
C9_ResolutionErrorsWrapped ==
    (resolution.kind = "raise" /\ (IsWebRequest \/ IsGcsRequest)) =>
        /\ resolution.exc.type = "ValueError"
        /\ Contains(resolution.exc.msg,
                    IF IsWebRequest THEN arguments.web_url
                    ELSE arguments.gcs_pdf_uri)

\* Bytes that are no PDF arrived from a .PDF URL: the PDF parser's error.
C9_Witness ==
    /\ IsWebRequest
    /\ delivered.kind = "response"
    /\ delivered.content.fmt = "junk"
    /\ arguments.web_url = << "http://h/", "doc", ".PDF" >>
    /\ resolution.kind = "raise"
    /\ Contains(resolution.exc.msg, << "Stream has ended unexpectedly" >>)

----------------------------------------------------------------------------
(* C10 *)

\* C10: the HTTP endpoint answers every resolution error and every metrics
\* error with 422 and the error's message as detail, every other exception
\* with 500 and the detail "Internal Server Error.", and anything else with
\* 200 and the bundle.
C10_HttpStatusMapping ==
    (adapter = "http" /\ pc = "done") =>
        /\ response.kind = "http"
        /\ response.status \in { 200, 422, 500 }
        /\ resolution.kind = "raise" =>
              response.status = 422 /\ response.detail = resolution.exc.msg
        /\ (metrics.kind = "raise" /\ metrics.exc.type = "ValueError") =>
              response.status = 422 /\ response.detail = metrics.exc.msg
        /\ (metrics.kind = "raise" /\ metrics.exc.type # "ValueError") =>
              response.status = 500 /\ response.detail = InternalErrorDetail
        /\ response.status = 200 <=> metrics.kind = "ok"
        /\ response.status = 200 => response.body = metrics.bundle

\* A textstat failure that is no ValueError, answered with 500.
C10_Witness ==
    /\ adapter = "http"
    /\ pc = "done"
    /\ metrics.kind = "raise"
    /\ metrics.exc.type = "ZeroDivisionError"
    /\ response.status = 500

----------------------------------------------------------------------------
(* C11 *)

\* The pipeline ended with an exception that is no resolution or metrics
\* error (no ValueError).
UnexpectedFailure ==
    /\ pc = "done"
    /\ metrics.kind = "raise"
    /\ ~IsValueError(metrics.exc)

\* C11: in both adapters an unexpected exception is answered with a generic
\* server-error response that does not contain the exception's own message.
C11_UnexpectedErrorNotEchoed ==
    UnexpectedFailure =>
        /\ IsErrorResponse
        /\ ~Contains(ErrorDetail, metrics.exc.msg)
        /\ IF response.kind = "http" THEN response.status = 500
           ELSE response.content[1].error = "Internal Server Error"

----------------------------------------------------------------------------
(* C12 *)

\* The provenance the templates give for the request and the branch taken.
ExpectedProvenance ==
    IF arguments.text \notin { None, << >> } THEN << "direct text" >>
    ELSE IF IsWebRequest
    THEN IF AnnouncedAsPdf THEN << "Web PDF: " >> \o arguments.web_url
         ELSE << "URL: " >> \o arguments.web_url
    ELSE << "GCS: " >> \o arguments.gcs_pdf_uri

\* C12: every successful get_processed_text returns the provenance of the
\* branch that produced the text: "direct text", "Web PDF: <url>",
\* "URL: <url>" or "GCS: <uri>", with the request's field value unchanged.
C12_ProvenanceTemplates ==
    resolution.kind = "ok" => resolution.desc = ExpectedProvenance

\* A stored PDF was resolved.
C12_Witness ==
    /\ resolution.kind = "ok"
    /\ IsGcsRequest
    /\ resolution.desc = << "GCS: ", "gs://", "b", "/", "o.pdf" >>

----------------------------------------------------------------------------
(* C13 *)

\* C13 relates the results of two runs of the pipeline on the same input (a
\* property of pairs of executions); it is not expressed over the single
\* executions of this model, in which get_processed_text's text branch and
\* calculate_readability_metrics_logic are operators of their arguments.

----------------------------------------------------------------------------
(* C16 *)

\* A response to the web request's GET has arrived and the web branch is over.
WebResponseHandled ==
    /\ IsWebRequest
    /\ resolution # Absent
    /\ delivered # Absent
    /\ delivered.kind = "response"

\* The outcomes only the PDF parser produces: the "Web PDF" provenance, the
\* no-text-in-PDF error and the PDF reader's own error.
ParsedAsPdf ==
    IF resolution.kind = "ok" THEN Head(resolution.desc) = "Web PDF: "
    ELSE \/ Contains(resolution.exc.msg, NoTextWebPdfMsg)
         \/ Contains(resolution.exc.msg, << "Stream has ended unexpectedly" >>)

\* The outcomes only the HTML parser produces.
ParsedAsHtml ==
    IF resolution.kind = "ok" THEN Head(resolution.desc) = "URL: "
    ELSE Contains(resolution.exc.msg, NoTextUrlMsg)

\* C16: a successful response to a web_url request is parsed as a PDF exactly
\* when the lower-cased Content-Type contains "application/pdf" or the
\* lower-cased URL ends with ".pdf", and as HTML in every other case.
C16_PdfExactlyWhenAnnounced ==
    WebResponseHandled =>
        /\ ParsedAsPdf <=> AnnouncedAsPdf
        /\ ParsedAsHtml <=> ~AnnouncedAsPdf

\* A PDF served as "Application/PDF" from a URL without extension was
\* parsed as a PDF.
C16_Witness ==
    /\ WebResponseHandled
    /\ arguments.web_url = << "http://h/", "page" >>
    /\ delivered.content_type = << "Application/PDF" >>
    /\ delivered.content.fmt = "pdf"
    /\ ParsedAsPdf
    /\ resolution.kind = "ok"

----------------------------------------------------------------------------
(* C17 *)

\* C17: no score bundle has word_count = 0: every bundle the metrics engine
\* returns, for a text of any source kind, has word_count >= 1, and a text
\* that is blank or has no lexical word is answered with an error.
C17_NoBundleWithZeroWords ==
    /\ (metrics # Absent /\ metrics.kind = "ok") =>
           /\ metrics.bundle.word_count >= 1
           /\ lexicon_count(resolution.text) >= 1
    /\ (pc = "done" /\ resolution # Absent /\ resolution.kind = "ok"
          /\ lexicon_count(resolution.text) = 0) =>
           /\ metrics.kind = "raise"
           /\ metrics.exc.msg \in { EmptyTextMsg, ZeroWordsMsg }
           /\ IsErrorResponse

\* A stored PDF whose only text is a question mark was resolved and the
\* scoring refused it with "Zero words.".
C17_Witness ==
    /\ pc = "done"
    /\ IsGcsRequest
    /\ resolution.kind = "ok"
    /\ resolution.text = << "?" >>
    /\ metrics.kind = "raise"
    /\ metrics.exc.msg = ZeroWordsMsg

----------------------------------------------------------------------------
(* C18 *)

\* An HTML page arrived and was parsed as HTML.
HtmlPageArrived ==
    /\ WebResponseHandled
    /\ delivered.content.fmt = "html"
    /\ ~AnnouncedAsPdf

\* The element of the preference order article, main, body: the first one
\* the page has.
PreferredElement ==
    LET doc == delivered.content.doc IN
    IF doc.article # NoElement THEN "article"
    ELSE IF doc.main # NoElement THEN "main"
    ELSE "body"

\* C18: the text of an HTML response is that of <article> when the page has
\* one, else of <main> when it has one, else of <body>; when the preferred
\* element has no text, resolution fails with "No text from URL." even if a
\* lower-preference element has text.
C18_ElementPreference ==
    HtmlPageArrived =>
        LET element == delivered.content.doc[PreferredElement]
            text    == IF element = NoElement THEN << >> ELSE get_text(element)
        IN  IF text = << >>
            THEN /\ resolution.kind = "raise"
                 /\ Contains(resolution.exc.msg, NoTextUrlMsg)
            ELSE /\ resolution.kind = "ok"
                 /\ resolution.text = text

\* A page with an empty <article> and a <body> that has text: the
\* resolution fails.
C18_Witness ==
    /\ HtmlPageArrived
    /\ pc = "done"
    /\ delivered.content.doc.article = << >>
    /\ delivered.content.doc.body = << << "a" >> >>
    /\ resolution.kind = "raise"
    /\ Contains(resolution.exc.msg, NoTextUrlMsg)

----------------------------------------------------------------------------
(* C19 *)

\* A PDF (from the web, announced as one, or from storage) was resolved.
PdfResolved ==
    /\ resolution # Absent
    /\ resolution.kind = "ok"
    /\ delivered # Absent
    /\ delivered.content.fmt = "pdf"
    /\ \/ IsGcsRequest
       \/ IsWebRequest /\ AnnouncedAsPdf

\* The texts of the pages in page order, a page without text giving "".
PagesInOrder ==
    LET pages == delivered.content.pages IN
    Join([ i \in DOMAIN pages |-> IF pages[i] = None THEN << >> ELSE pages[i] ])

\* C19 as stated: the text of a resolved PDF is the page-order concatenation
\* of the pages' texts and has no leading or trailing whitespace.
C19_PdfTextConcatenatedAndTrimmed ==
    PdfResolved =>
        /\ resolution.text = PagesInOrder
        /\ Strip(resolution.text) = resolution.text

\* C19, amended: the text of a resolved PDF is the page-order concatenation
\* of the pages' texts (a page without text gives ""), returned as joined,
\* with its leading and trailing whitespace; only the trimmed form is tested,
\* so the returned text has at least one non-whitespace character.
C19_PdfTextConcatenated ==
    PdfResolved =>
        /\ resolution.text = PagesInOrder
        /\ Strip(resolution.text) # << >>

\* A two-page PDF whose pages differ, the second with whitespace at its
\* end, was resolved.
C19_Witness ==
    /\ PdfResolved
    /\ delivered.content.pages = << << "a" >>, << " ", "a", " " >> >>
    /\ resolution.text = << "a", " ", "a", " " >>

----------------------------------------------------------------------------
(* C20 *)

\* The request's storage URI starts with "gs://" and has a "/" after the
\* bucket.
WellFormedGcsUri ==
    /\ IsGcsRequest
    /\ Head(arguments.gcs_pdf_uri) = "gs://"
    /\ \E i \in 3..Len(arguments.gcs_pdf_uri) : arguments.gcs_pdf_uri[i] = "/"

\* C20: the object read has as bucket the text between the "gs://" prefix
\* and the first "/" after it and as name everything after that "/"
\* unchanged, a later "gs://" included; a URI without "/" after the bucket
\* fails with a "GCS PDF error" and nothing is read from storage.
C20_BucketAndObjectSplit ==
    /\ (WellFormedGcsUri /\ blobRef # Absent) =>
          LET rest  == Tail(arguments.gcs_pdf_uri)
              slash == CHOOSE i \in DOMAIN rest :
                           rest[i] = "/" /\ \A j \in 1..(i - 1) : rest[j] # "/"
          IN  /\ blobRef.bucket = SubSeq(rest, 1, slash - 1)
              /\ blobRef.name = SubSeq(rest, slash + 1, Len(rest))
    /\ (IsGcsRequest /\ Head(arguments.gcs_pdf_uri) = "gs://" /\ ~WellFormedGcsUri
          /\ pc = "done" /\ source # Absent) =>
          /\ resolution.kind = "raise"
          /\ Head(resolution.exc.msg) = "GCS PDF error ("
          /\ "storage_read" \notin ioLog

----------------------------------------------------------------------------
(* C14 *)

\* C14: over the life of the process and under every interleaving of the
\* concurrent requests, storage.Client() returns a client at most once: the
\* first get_storage_client call that succeeds stores it, and every later
\* call returns that stored handle and constructs nothing.
C14_ClientConstructedOnce ==
    /\ constructed <= 1
    /\ (constructed = 1) <=> (storage_client # NoClient)
    /\ \A t \in Tasks :
          tasks[t].pc \in { "has_client", "downloading" } =>
              /\ tasks[t].handle # NoClient
              /\ tasks[t].handle = storage_client

\* Two storage requests are waiting for their downloads at the same time,
\* both holding the one client.
C14_Witness ==
    /\ constructed = 1
    /\ \E t, u \in Tasks :
          /\ t # u
          /\ tasks[t].pc = "downloading"
          /\ tasks[u].pc = "downloading"
          /\ tasks[t].handle = storage_client
          /\ tasks[u].handle = storage_client

----------------------------------------------------------------------------
(* C15 *)

\* C15: a request that waits for its download does not hold the event loop:
\* unless a third request is in the middle of its own run, every other
\* request that is ready can be resumed, and a direct-text request then runs
\* to its result while the download is still pending.
C15_LoopNotStalledByDownload ==
    \A t \in Tasks :
       tasks[t].pc = "downloading" =>
          /\ running # t
          /\ \A u \in Tasks :
                (tasks[u].pc = "ready" /\ running = NoTask) =>
                    IF tasks[u].kind = "text"
                    THEN ENABLED TaskRunText(u)
                    ELSE ENABLED TaskGetClient(u)

\* A direct-text request started and finished while another request's
\* download was pending, and the download is still pending.
C15_Witness ==
    \E t, u \in Tasks :
       /\ tasks[t].pc = "downloading"
       /\ tasks[u].pc = "finished"
       /\ tasks[u].kind = "text"
       /\ tasks[u].overlapped
       /\ tasks[u].result = "ok"

----------------------------------------------------------------------------
(* C21 *)

\* The characters JSON does not allow unescaped inside a string.
JsonStringBreakers == { "\"", "\n", "\\" }

\* The text reads as a JSON object with the string fields "error" and
\* "detail".
IsErrorObjectText(text) ==
    /\ Len(text) >= 4
    /\ text[1] = "{\"error\": \""
    /\ text[3] = "\", \"detail\": \""
    /\ text[Len(text)] = "\"}"
    /\ \A i \in ({ 2 } \cup 4..(Len(text) - 1)) : text[i] \notin JsonStringBreakers

\* The text is a serialized score bundle.
IsBundleText(text) ==
    /\ Head(text) = "{"
    /\ text[Len(text)] = "}"
    /\ \E i \in DOMAIN text : text[i] = "\"spache\": "

\* The tool answered with one text item.
ToolAnsweredOneItem ==
    (adapter = "mcp" /\ pc = "done") =>
        /\ response.kind = "mcp"
        /\ Len(response.content) = 1
        /\ response.content[1].type = "text"

\* Validation comes before extraction, and scoring after a successful
\* extraction.
ToolStepsInOrder ==
    /\ (resolution # Absent \/ ioLog # {}) => source # Absent
    /\ (metrics # Absent \/ "score" \in ioLog) =>
           (resolution # Absent /\ resolution.kind = "ok")

\* C21: execute_readability_tool never raises: for every arguments dict it
\* returns exactly one text item, which is the serialized score bundle or an
\* error object with an "error" and a "detail" field; the arguments are
\* validated before anything is extracted, and the scoring runs only after
\* the extraction succeeded.
C21_ToolAlwaysAnswersWithOneObject ==
    /\ ToolAnsweredOneItem
    /\ ToolStepsInOrder
    /\ (adapter = "mcp" /\ pc = "done") =>
          \/ IsBundleText(response.content[1].text)
          \/ IsErrorObjectText(response.content[1].text)

----------------------------------------------------------------------------
(* C22 *)

\* The event ids stored in the replayed stream after last_eid, in storage
\* order, from the log as it was when the replay was called.
StoredAfterLast ==
    LET log  == replay.log_at_call
        at   == CHOOSE i \in DOMAIN log : log[i].event_id = replay.last_eid
        sid  == log[at].stream_id
        rest == SubSeq(log, at + 1, Len(log))
        same == SelectSeq(rest, LAMBDA e : e.stream_id = sid)
    IN  [ i \in DOMAIN same |-> same[i].event_id ]

\* The stream last_eid was stored in.
StreamOfLast ==
    LET log == replay.log_at_call
        at  == CHOOSE i \in DOMAIN log : log[i].event_id = replay.last_eid
    IN  log[at].stream_id

\* A replay is under way or over.
ReplayStarted == replay.pc \in { "in_callback", "returned", "failed" }

\* C22: replay_events_after(last_eid, cb) returns None and never calls cb
\* when last_eid is not in the index (never stored or evicted); otherwise it
\* returns last_eid's stream id and calls cb once for each event stored in
\* that stream after last_eid, in storage order, and for no other event:
\* not for last_eid, not for an earlier event, not for another stream's.
\* A replay that ends with an error has returned nothing and has left out
\* the events it did not reach.
C22_ReplayDeliversLaterEvents ==
    ReplayStarted =>
        /\ replay.pc # "failed"
        /\ IF replay.last_eid \notin replay.index_at_call
           THEN /\ replay.pc = "returned"
                /\ replay.result = NoStream
                /\ replay.sent = << >>
           ELSE /\ replay.pc = "returned" =>
                     /\ replay.result = StreamOfLast
                     /\ replay.sent = StoredAfterLast
                /\ replay.pc = "in_callback" =>
                     /\ Len(replay.sent) <= Len(StoredAfterLast)
                     /\ replay.sent = SubSeq(StoredAfterLast, 1, Len(replay.sent))

----------------------------------------------------------------------------
(* C23 *)

\* The entries stored in a stream, in storage order.
StoredIn(stream_id) == SelectSeq(store_log, LAMBDA e : e.stream_id = stream_id)

\* The last n items of a sequence (all of them when it has fewer).
LastN(seq, n) ==
    IF Len(seq) <= n THEN seq ELSE SubSeq(seq, Len(seq) - n + 1, Len(seq))

\* The ids of the entries held in some stream.
HeldIds ==
    UNION { { streams[sid].items[i].event_id : i \in DOMAIN streams[sid].items } :
            sid \in DOMAIN streams }

\* C23: after any sequence of store_event calls every stream holds at most
\* max_events_per_stream entries, the most recently stored ones in storage
\* order, and event_index has exactly the ids of the entries held in some
\* stream, each mapped to its entry.
C23_StoreBoundedAndIndexed ==
    /\ DOMAIN streams = { e.stream_id : e \in { store_log[i] : i \in DOMAIN store_log } }
    /\ \A sid \in DOMAIN streams :
          /\ Len(streams[sid].items) <= MaxEventsPerStream
          /\ streams[sid].items = LastN(StoredIn(sid), MaxEventsPerStream)
    /\ DOMAIN event_index = HeldIds
    /\ \A eid \in DOMAIN event_index : event_index[eid].event_id = eid

\* A full stream dropped its oldest entry, whose id left the index.
C23_Witness ==
    /\ "s1" \in DOMAIN streams
    /\ Len(StoredIn("s1")) = MaxEventsPerStream + 1
    /\ Len(streams["s1"].items) = MaxEventsPerStream
    /\ StoredIn("s1")[1].event_id \notin DOMAIN event_index

----------------------------------------------------------------------------
(* C24 *)

\* C24: when store_event adds an event to a stream whose replay is waiting
\* inside cb, the replay still ends without error, having passed every
\* event after last_eid to cb once, in storage order.
C24_ReplaySurvivesStore ==
    (replay.pc \in { "returned", "failed" } /\ replay.interrupted) =>
        /\ replay.pc = "returned"
        /\ Len(replay.sent) >= Len(StoredAfterLast)
        /\ SubSeq(replay.sent, 1, Len(StoredAfterLast)) = StoredAfterLast
        /\ \A i, j \in DOMAIN replay.sent : replay.sent[i] = replay.sent[j] => i = j

----------------------------------------------------------------------------
(* C25 *)

\* What a scoring call gave its caller: the bundle or the error.
Returned(r) == IF r.kind = "ok" THEN [ kind |-> "ok", bundle |-> r.bundle ]
               ELSE [ kind |-> "raise", exc |-> r.exc ]

\* C25: for every text and provenance, main.py's
\* calculate_readability_metrics_logic returns the same bundle, with the same
\* spache value, or raises the same error as metrics.py's.
C25_StandaloneScoresAsModular ==
    compared # Absent => Returned(compared.standalone) = Returned(compared.modular)

====
